---- MODULE Spec2Model ----
(***************************************************************************)
(* Model of library/firewall_lib.py: the Ansible module that reconciles a  *)
(* firewalld zone with a desired set of entries on the runtime plane (the  *)
(* running daemon, reached through `fw`) and the permanent plane (the      *)
(* zone's persisted configuration, edited through the buffered settings    *)
(* object `fw_settings` and written back by one update at the end).        *)
(*                                                                         *)
(* Strings that the module parses (port and forward_port items) are        *)
(* sequences of one-character strings, so that parse_port and              *)
(* parse_forward_port are computed as the code computes them.  Optional    *)
(* module parameters are the strings "unset", "true" and "false".          *)
(***************************************************************************)
EXTENDS Integers, Sequences, FiniteSets, TLC

\* ------------------------------------------------------------------ bounds
\* Longest list a request gives for one kind of entry.
MaxLen == 2
\* Invocations a process makes one after the other.
MaxRuns == 2
\* The positive timeout a request may carry (seconds); 0 is the default.
SomeTimeout == 5
\* Longest port or forward_port string drawn from the alphabets below.
MaxStr == 5
\* The latest call of an invocation that the backend may be made to fail.
MaxFail == 6

\* ------------------------------------------------------------ python values
Unset == "unset"
True == "true"
False == "false"
Tri == {Unset, True, False}

\* Python truthiness of an optional bool parameter: None and False are falsy.
Truthy(x) == x = True

\* Python None in a parsed forward port (no to-port, no to-address).
Absent == <<"<None>">>

\* ------------------------------------------------------------------ parsing
\* str.split(sep): the segments of s between occurrences of the character sep.
RECURSIVE SplitFrom(_, _, _, _)
SplitFrom(s, sep, i, cur) ==
    IF i > Len(s) THEN <<cur>>
    ELSE IF s[i] = sep THEN <<cur>> \o SplitFrom(s, sep, i + 1, <<>>)
    ELSE SplitFrom(s, sep, i + 1, Append(cur, s[i]))

Split(s, sep) == SplitFrom(s, sep, 1, <<>>)

\* The messages of the fail_json calls of the two parsers.
MsgImproperPort == "improper port format (missing protocol?)"
MsgImproperForward == "improper forward_port format"
MsgForwardNoProtocol == "improper forward_port format (missing protocol?)"

\* parse_port: `_port, _protocol = item.split("/")` unpacks exactly two
\* segments, any other count raises ValueError; the `is None` test can never
\* be true of a split segment, so fail_json is never reached.
parse_port(item) ==
    LET parts == Split(item, "/")
    IN IF Len(parts) = 2
       THEN [ok |-> TRUE, val |-> <<parts[1], parts[2]>>, err |-> ""]
       ELSE [ok |-> FALSE, val |-> <<>>, err |-> "ValueError"]

\* parse_forward_port: three ';' segments or fail_json; the first is unpacked
\* like a port; empty to-port and to-address become None.
parse_forward_port(item) ==
    LET args == Split(item, ";")
    IN IF Len(args) # 3
       THEN [ok |-> FALSE, val |-> <<>>, err |-> MsgImproperForward]
       ELSE LET pp == Split(args[1], "/")
            IN IF Len(pp) # 2
               THEN [ok |-> FALSE, val |-> <<>>, err |-> "ValueError"]
               ELSE [ok |-> TRUE,
                     val |-> << pp[1], pp[2],
                                IF args[2] = <<>> THEN Absent ELSE args[2],
                                IF args[3] = <<>> THEN Absent ELSE args[3] >>,
                     err |-> ""]

\* str(Rich_Rule(rule_str=item)): the collaborator's canonical text of a rule,
\* or an exception for text it rejects.  "R1" is a non-canonical spelling of
\* "r1"; "bad" is rejected.
RichRuleStr(item) ==
    IF item = "bad" THEN [ok |-> FALSE, val |-> "", err |-> "Rich Rule is not valid"]
    ELSE IF item = "R1" THEN [ok |-> TRUE, val |-> "r1", err |-> ""]
    ELSE [ok |-> TRUE, val |-> item, err |-> ""]

\* A list parameter parsed item by item, stopping at the first failure.
RECURSIVE ParseList(_, _, _)
ParseList(items, kind, acc) ==
    IF items = <<>> THEN [ok |-> TRUE, val |-> acc, err |-> ""]
    ELSE LET r == IF kind \in {"port", "source_port"} THEN parse_port(Head(items))
                  ELSE IF kind = "forward_port" THEN parse_forward_port(Head(items))
                  ELSE IF kind = "rich_rule" THEN RichRuleStr(Head(items))
                  ELSE [ok |-> TRUE, val |-> Head(items), err |-> ""]
         IN IF r.ok THEN ParseList(Tail(items), kind, Append(acc, r.val))
            ELSE [ok |-> FALSE, val |-> <<>>, err |-> r.err]

\* ------------------------------------------------------------ the rule model
\* The kinds of entry, in the order main() reconciles them.
KindOrder == << "service", "port", "source_port", "forward_port", "masquerade",
                "rich_rule", "source", "interface", "icmp_block",
                "icmp_block_inversion", "target" >>

ListKinds == { "service", "port", "source_port", "forward_port", "rich_rule",
               "source", "interface", "icmp_block" }
ToggleKinds == { "masquerade", "icmp_block_inversion" }
EntryKinds == ListKinds \cup ToggleKinds

\* The add calls that take the timeout argument.
TimeoutKinds == { "service", "port", "source_port", "forward_port", "masquerade",
                  "rich_rule", "icmp_block" }

\* The key under which a scalar toggle is held when it is on.
On == "on"

\* Two well-formed raw items of every list kind.
ItemA(kind) ==
    CASE kind = "service" -> "ssh"
      [] kind \in {"port", "source_port"} -> <<"8", "/", "t">>
      [] kind = "forward_port" -> <<"8", "/", "t", ";", "9", ";">>
      [] kind = "rich_rule" -> "R1"
      [] kind = "source" -> "10.0.0.1"
      [] kind = "interface" -> "eth0"
      [] kind = "icmp_block" -> "echo-request"

ItemB(kind) ==
    CASE kind = "service" -> "http"
      [] kind \in {"port", "source_port"} -> <<"9", "/", "u">>
      [] kind = "forward_port" -> <<"8", "/", "t", ";", ";", "h">>
      [] kind = "rich_rule" -> "r2"
      [] kind = "source" -> "10.0.0.2"
      [] kind = "interface" -> "eth1"
      [] kind = "icmp_block" -> "redirect"

\* A raw item of the kind that the module cannot parse (none for the kinds
\* that are taken as they are).
ItemBad(kind) ==
    CASE kind \in {"port", "source_port"} -> <<"8">>
      [] kind = "forward_port" -> <<"8", "/", "t", ";", "9">>
      [] kind = "rich_rule" -> "bad"

ParsedKinds == {"port", "source_port", "forward_port", "rich_rule"}

\* The identity key of a well-formed raw item.
KeyOf(kind, raw) == ParseList(<<raw>>, kind, <<>>).val[1]

\* ------------------------------------------------------------------ zones
Zones == {"public", "work"}
DefaultZone == "public"
Targets == {"default", "ACCEPT", "DROP", "%%REJECT%%"}

\* A zone's configuration on one plane: the keys present of every kind, and
\* the zone target.
ZoneConfig(keysOf, tgt) == [ent |-> [k \in EntryKinds |-> keysOf[k]], target |-> tgt]

NoKeys == [k \in EntryKinds |-> {}]
KeysA == [k \in EntryKinds |-> IF k \in ListKinds THEN {KeyOf(k, ItemA(k))} ELSE {On}]
KeysB == [k \in EntryKinds |-> IF k \in ListKinds THEN {KeyOf(k, ItemB(k))} ELSE {}]

\* ------------------------------------------------------------------ state
Procs == {1, 2}

VARIABLES
    rt,           \* runtime plane: [zone -> [kind -> keys present in the daemon]]
    timed,        \* runtime entries added with a timeout: <<zone, kind, key>>
    perm,         \* permanent plane: [zone -> persisted ZoneConfig]
    pc,           \* [proc -> where the invocation stands in main()]
    params,       \* [proc -> module.params, with check_mode and fw.connected]
    locals,       \* [proc -> runtime, permanent, zone, fw_offline, parsed lists]
    fw_settings,  \* [proc -> the settings object loaded from the permanent zone]
    changed,      \* [proc -> main()'s changed]
    calls,        \* [proc -> the calls made on fw / fw_settings / fw_zone, in order]
    result,       \* [proc -> what the invocation handed back]
    start,        \* [proc -> the two planes as they were when the invocation began,
                  \*          and the processes in mid-invocation then]
    expired,      \* [proc -> a timeout ran out since the invocation began]
    prev,         \* [proc -> the invocation completed before the current one]
    runs          \* [proc -> invocations begun]

vars == << rt, timed, perm, pc, params, locals, fw_settings, changed, calls,
           result, start, expired, prev, runs >>

\* ------------------------------------------------------- failure messages
MsgNoPlane == "One of permanent, runtime or offline needs to be enabled"
MsgEmpty == "One of service, port, source_port, forward_port, masquerade, rich_rule, source, interface, icmp_block, icmp_block_inversion, target or zone needs to be set"
MsgDisabledTimeout == "timeout can not be used with state: disabled"
MsgDisabledMasquerade == "masquerade can not be used with state: disabled"
MsgDisabledInversion == "icmp_block_inversion can not be used with state: disabled"
MsgTimeoutInversion == "timeout can not be used with icmp_block_inverson only"
MsgTimeoutSource == "timeout can not be used with source only"
MsgTimeoutInterface == "timeout can not be used with interface only"
MsgTimeoutTarget == "timeout can not be used with target only"
MsgNotRunning == "Firewalld is not running and offline operation is declined."
MsgNoRuntimeZone == "Runtime zone does not exist."
MsgNoPermanentZone == "Permanent zone does not exist."
MsgInvalidZone == "INVALID_ZONE"
MsgNoOfflineCall == "offline firewall object has no querySource"
MsgBackendError == "exception_message"

\* ------------------------------------------------- main(): before the loops
\* Lines 241-262: the list parameters, parsed in the order of the code.
ParseParams(prm) ==
    LET port == ParseList(prm.port, "port", <<>>)
        source_port == ParseList(prm.source_port, "source_port", <<>>)
        forward_port == ParseList(prm.forward_port, "forward_port", <<>>)
        rich_rule == ParseList(prm.rich_rule, "rich_rule", <<>>)
        err == IF ~port.ok THEN port.err
               ELSE IF ~source_port.ok THEN source_port.err
               ELSE IF ~forward_port.ok THEN forward_port.err
               ELSE IF ~rich_rule.ok THEN rich_rule.err
               ELSE ""
    IN [ err |-> err,
         ent |-> [ k \in ListKinds |->
                     CASE k = "port" -> port.val
                       [] k = "source_port" -> source_port.val
                       [] k = "forward_port" -> forward_port.val
                       [] k = "rich_rule" -> rich_rule.val
                       [] OTHER -> prm[k] ] ]

\* Lines 271-272: runtime is assumed when permanent is not given.
RuntimeAfterSelection(prm) ==
    IF prm.permanent = Unset THEN True ELSE prm.runtime

\* Lines 273-279: the module refuses a request that selects no plane.
NoPlaneSelected(prm) ==
    /\ prm.permanent = False
    /\ prm.runtime # Unset /\ ~Truthy(prm.runtime)
    /\ prm.offline # Unset /\ ~Truthy(prm.offline)

\* Lines 286-294: the summed length of the eight lists.
TotalEntries(ent) ==
    Len(ent["service"]) + Len(ent["port"]) + Len(ent["source_port"])
    + Len(ent["forward_port"]) + Len(ent["rich_rule"]) + Len(ent["source"])
    + Len(ent["interface"]) + Len(ent["icmp_block"])

\* A variant that does not look at zone.
EmptyRequestIgnoresZone(prm, ent) ==
    /\ prm.masquerade = Unset
    /\ prm.icmp_block_inversion = Unset
    /\ prm.target = Unset
    /\ TotalEntries(ent) = 0

\* Lines 281-300.
EmptyRequest(prm, ent) ==
    /\ prm.masquerade = Unset
    /\ prm.icmp_block_inversion = Unset
    /\ prm.target = Unset
    /\ prm.zone = Unset
    /\ TotalEntries(ent) = 0

\* A variant that lets a timeout through with state disabled.
DisabledCheckNoTimeout(prm) ==
    IF prm.state # "disabled" THEN ""
    ELSE IF Truthy(prm.masquerade) THEN MsgDisabledMasquerade
    ELSE IF Truthy(prm.icmp_block_inversion) THEN MsgDisabledInversion
    ELSE ""

\* Lines 303-312: what state "disabled" refuses; "" when nothing is refused.
DisabledCheck(prm) ==
    IF prm.state # "disabled" THEN ""
    ELSE IF prm.timeout > 0 THEN MsgDisabledTimeout
    ELSE IF Truthy(prm.masquerade) THEN MsgDisabledMasquerade
    ELSE IF Truthy(prm.icmp_block_inversion) THEN MsgDisabledInversion
    ELSE ""

\* Lines 320-329.
TimeoutOk(prm, ent) ==
    \/ Truthy(prm.masquerade)
    \/ Len(ent["service"]) + Len(ent["port"]) + Len(ent["source_port"])
       + Len(ent["forward_port"]) + Len(ent["rich_rule"]) + Len(ent["icmp_block"]) > 0

\* Lines 319-343: the four "only" refusals of a positive timeout.
TimeoutCheck(prm, ent) ==
    IF ~(prm.timeout > 0) \/ TimeoutOk(prm, ent) THEN ""
    ELSE IF prm.icmp_block_inversion # Unset THEN MsgTimeoutInversion
    ELSE IF Len(ent["source"]) > 0 THEN MsgTimeoutSource
    ELSE IF Len(ent["interface"]) > 0 THEN MsgTimeoutInterface
    ELSE IF prm.target # Unset THEN MsgTimeoutTarget
    ELSE ""

\* Lines 271-343: the parameter checks in the order of the code; "" when the
\* request passes them all.
Validate(prm, ent) ==
    IF NoPlaneSelected(prm) THEN MsgNoPlane
    ELSE IF EmptyRequest(prm, ent) THEN MsgEmpty
    ELSE IF DisabledCheck(prm) # "" THEN DisabledCheck(prm)
    ELSE TimeoutCheck(prm, ent)

\* Lines 350-380: the connection; an unreachable daemon is served offline,
\* on the permanent plane alone, when the request allows it.
Connect(prm, runtime0) ==
    IF ~prm.connected
    THEN IF ~Truthy(prm.offline)
         THEN [msg |-> MsgNotRunning, fw_offline |-> FALSE,
               runtime |-> runtime0, permanent |-> prm.permanent]
         ELSE [msg |-> "", fw_offline |-> TRUE, runtime |-> False, permanent |-> True]
    ELSE [msg |-> "", fw_offline |-> FALSE,
          runtime |-> runtime0, permanent |-> prm.permanent]

\* Lines 394-420: the zone the invocation works on, or the failure to find it.
ResolveZone(prm, c) ==
    IF prm.zone = Unset THEN [msg |-> "", zone |-> DefaultZone]
    ELSE IF c.fw_offline
    THEN IF prm.zone \notin Zones
         THEN [msg |-> MsgNoPermanentZone, zone |-> prm.zone]
         ELSE [msg |-> "", zone |-> prm.zone]
    ELSE IF Truthy(c.runtime) /\ prm.zone \notin Zones
    THEN [msg |-> MsgNoRuntimeZone, zone |-> prm.zone]
    ELSE IF Truthy(c.permanent) /\ prm.zone \notin Zones
    THEN [msg |-> MsgNoPermanentZone, zone |-> prm.zone]
    ELSE IF prm.zone \notin Zones
    THEN [msg |-> MsgInvalidZone, zone |-> prm.zone]
    ELSE [msg |-> "", zone |-> prm.zone]

\* ------------------------------------------------------- the plane accessor
\* A call is recorded as <<plane, operation, kind, key>>: plane "runtime" for
\* the calls on fw, "permanent" for those on fw_settings and fw_zone.
Call(plane, op, kind, key) == <<plane, op, kind, key>>

\* What the loops thread through their iterations: the runtime plane, the
\* settings object, changed, the calls so far, and the message of a call that
\* raised ("" while none has).
LoopState(p) ==
    [ rt |-> rt, timed |-> timed, fs |-> fw_settings[p], changed |-> changed[p],
      calls |-> calls[p], msg |-> "" ]

\* What the loops read: the locals of main() and the parameters they use.
Context(p) ==
    [ zone |-> locals[p].zone, runtime |-> locals[p].runtime,
      permanent |-> locals[p].permanent, fw_offline |-> locals[p].fw_offline,
      state |-> params[p].state, timeout |-> params[p].timeout,
      check_mode |-> params[p].check_mode, fail_at |-> params[p].fail_at ]

\* A variant whose query never finds the entry.
QueryRuntimeNever(st, c, kind, key) == FALSE

\* fw.query<Kind>(zone, key)
QueryRuntime(st, c, kind, key) == key \in st.rt[c.zone][kind]

\* A variant whose addition replaces the entries of the kind in the zone.
AddRuntimeAlone(st, c, kind, key) ==
    [ st EXCEPT !.rt[c.zone][kind] = {key},
                !.timed = IF kind \in TimeoutKinds /\ c.timeout > 0
                          THEN @ \cup {<<c.zone, kind, key>>} ELSE @,
                !.calls = Append(@, Call("runtime", "add", kind, key)) ]

\* fw.add<Kind>(zone, key[, timeout]): the kinds that take the timeout are
\* held until it runs out when it is positive.
AddRuntime(st, c, kind, key) ==
    [ st EXCEPT !.rt[c.zone][kind] = @ \cup {key},
                !.timed = IF kind \in TimeoutKinds /\ c.timeout > 0
                          THEN @ \cup {<<c.zone, kind, key>>} ELSE @,
                !.calls = Append(@, Call("runtime", "add", kind, key)) ]

\* A variant whose removal leaves the entry on the plane.
RemoveRuntimeKeeps(st, c, kind, key) ==
    [ st EXCEPT !.calls = Append(@, Call("runtime", "remove", kind, key)) ]

\* fw.remove<Kind>(zone, key)
RemoveRuntime(st, c, kind, key) ==
    [ st EXCEPT !.rt[c.zone][kind] = @ \ {key},
                !.timed = @ \ {<<c.zone, kind, key>>},
                !.calls = Append(@, Call("runtime", "remove", kind, key)) ]

\* fw_settings.query<Kind>(key)
QueryPermanent(st, kind, key) == key \in st.fs.ent[kind]

\* A variant whose addition replaces the entries of the kind.
AddPermanentAlone(st, kind, key) ==
    [ st EXCEPT !.fs.ent[kind] = {key},
                !.calls = Append(@, Call("permanent", "add", kind, key)) ]

\* fw_settings.add<Kind>(key): buffered in the settings object.
AddPermanent(st, kind, key) ==
    [ st EXCEPT !.fs.ent[kind] = @ \cup {key},
                !.calls = Append(@, Call("permanent", "add", kind, key)) ]

\* fw_settings.remove<Kind>(key)
RemovePermanent(st, kind, key) ==
    [ st EXCEPT !.fs.ent[kind] = @ \ {key},
                !.calls = Append(@, Call("permanent", "remove", kind, key)) ]

\* A variant that mutates in check mode too.
MutatesAlways(c) == TRUE

\* `if not module.check_mode:` the mutation is made only outside check mode.
Mutates(c) == ~c.check_mode

\* Whether the next call of the invocation is the one the backend fails.
Raises(st, c) == c.fail_at = Len(st.calls) + 1

\* Lines 388-392: the failed call hands its message to the exception
\* handler, which ends the invocation with fail_json; the call has no effect.
Raise(st, call) == [st EXCEPT !.calls = Append(@, call), !.msg = MsgBackendError]

\* The runtime half of one iteration: query, and where the plane disagrees
\* with `want`, mutate (outside check mode) and, if `counts`, set changed.
OnRuntime(st, c, kind, key, want, counts) ==
    IF Raises(st, c) THEN Raise(st, Call("runtime", "query", kind, key))
    ELSE
    LET q == [st EXCEPT !.calls = Append(@, Call("runtime", "query", kind, key))]
    IN IF QueryRuntime(st, c, kind, key) = want THEN q
       ELSE IF Mutates(c) /\ Raises(q, c)
       THEN Raise(q, Call("runtime", IF want THEN "add" ELSE "remove", kind, key))
       ELSE LET m == IF ~Mutates(c) THEN q
                     ELSE IF want THEN AddRuntime(q, c, kind, key)
                     ELSE RemoveRuntime(q, c, kind, key)
            IN IF counts THEN [m EXCEPT !.changed = TRUE] ELSE m

\* A variant that sets changed inside `if not module.check_mode:`, with the
\* mutation.
OnPermanentCountsMutation(st, c, kind, key, want) ==
    LET q == [st EXCEPT !.calls = Append(@, Call("permanent", "query", kind, key))]
    IN IF QueryPermanent(st, kind, key) = want THEN q
       ELSE IF ~Mutates(c) THEN q
       ELSE [ (IF want THEN AddPermanent(q, kind, key) ELSE RemovePermanent(q, kind, key))
              EXCEPT !.changed = TRUE ]

\* The permanent half of one iteration; every branch sets changed.
OnPermanent(st, c, kind, key, want) ==
    IF Raises(st, c) THEN Raise(st, Call("permanent", "query", kind, key))
    ELSE
    LET q == [st EXCEPT !.calls = Append(@, Call("permanent", "query", kind, key))]
    IN IF QueryPermanent(st, kind, key) = want THEN q
       ELSE IF Mutates(c) /\ Raises(q, c)
       THEN Raise(q, Call("permanent", IF want THEN "add" ELSE "remove", kind, key))
       ELSE LET m == IF ~Mutates(c) THEN q
                     ELSE IF want THEN AddPermanent(q, kind, key)
                     ELSE RemovePermanent(q, kind, key)
            IN [m EXCEPT !.changed = TRUE]

\* A variant that holds the loop of source to the runtime flag as well.
RuntimeGateAll(c, kind) == Truthy(c.runtime)

\* Whether the loop of the kind goes to the runtime plane: `runtime and ...`
\* in every loop but that of source (lines 567 and 576), which asks fw
\* whatever the runtime flag says.
RuntimeGate(c, kind) == IF kind = "source" THEN TRUE ELSE Truthy(c.runtime)

\* Whether the runtime branch sets changed: every branch does but the removal
\* of a service (lines 438-440).
RuntimeCounts(kind, want) == ~(kind = "service" /\ ~want)

\* The object behind fw offline has no querySource: the call on it raises.
RaisesOffline(c, kind) == c.fw_offline /\ kind = "source"

\* One iteration of a list loop, for the key `key` of the kind.
ReconcileEntry(st, c, kind, key, want) ==
    IF RaisesOffline(c, kind)
    THEN [st EXCEPT !.calls = Append(@, Call("runtime", "query", kind, key)),
                    !.msg = MsgNoOfflineCall]
    ELSE LET s1 == IF RuntimeGate(c, kind)
                   THEN OnRuntime(st, c, kind, key, want, RuntimeCounts(kind, want))
                   ELSE st
         IN IF s1.msg = "" /\ Truthy(c.permanent)
            THEN OnPermanent(s1, c, kind, key, want) ELSE s1

\* A variant that reconciles the first item of the list only.
ListLoopFirstOnly(st, c, kind, items) ==
    IF items = <<>> \/ st.msg # "" THEN st
    ELSE ReconcileEntry(st, c, kind, Head(items), c.state = "enabled")

\* `for item in <kind>:` the iterations in the order of the list; an
\* iteration that raises ends the loop.
RECURSIVE ListLoop(_, _, _, _)
ListLoop(st, c, kind, items) ==
    IF items = <<>> \/ st.msg # "" THEN st
    ELSE ListLoop(ReconcileEntry(st, c, kind, Head(items), c.state = "enabled"),
                  c, kind, Tail(items))

\* A variant that goes on to the permanent plane after a call on the runtime
\* plane has failed.
ToggleBlockGoesOn(st, c, kind, value) ==
    LET s1 == IF Truthy(c.runtime)
              THEN OnRuntime(st, c, kind, On, Truthy(value), TRUE) ELSE st
    IN IF Truthy(c.permanent) THEN OnPermanent(s1, c, kind, On, Truthy(value)) ELSE s1

\* Lines 522-541 and 627-646: a scalar toggle is added when its parameter is
\* true and removed when it is false, whatever the state; a call that fails
\* ends the block.
ToggleBlock(st, c, kind, value) ==
    LET s1 == IF Truthy(c.runtime)
              THEN OnRuntime(st, c, kind, On, Truthy(value), TRUE) ELSE st
    IN IF s1.msg = "" /\ Truthy(c.permanent)
       THEN OnPermanent(s1, c, kind, On, Truthy(value)) ELSE s1

\* A variant that sets the target for state enabled only.
TargetBlockEnabledOnly(st, c, target) ==
    IF ~Truthy(c.permanent) \/ c.state # "enabled" THEN st
    ELSE LET q == [st EXCEPT !.calls = Append(@, Call("permanent", "getTarget", "target", ""))]
         IN IF st.fs.target = target THEN q
            ELSE LET m == IF ~Mutates(c) THEN q
                          ELSE [q EXCEPT !.fs.target = target,
                                         !.calls = Append(@, Call("permanent", "setTarget", "target", target))]
                 IN [m EXCEPT !.changed = TRUE]

\* Lines 648-659: the target is set on the settings object when permanent is
\* on and it differs, in the same way for both states.
TargetBlock(st, c, target) ==
    IF ~Truthy(c.permanent) THEN st
    ELSE IF Raises(st, c) THEN Raise(st, Call("permanent", "getTarget", "target", ""))
    ELSE LET q == [st EXCEPT !.calls = Append(@, Call("permanent", "getTarget", "target", ""))]
         IN IF st.fs.target = target THEN q
            ELSE IF Mutates(c) /\ Raises(q, c)
            THEN Raise(q, Call("permanent", "setTarget", "target", target))
            ELSE LET m == IF ~Mutates(c) THEN q
                          ELSE [q EXCEPT !.fs.target = target,
                                         !.calls = Append(@, Call("permanent", "setTarget", "target", target))]
                 IN [m EXCEPT !.changed = TRUE]

\* ---------------------------------------------------------------- requests
\* module.params with every parameter at its default (lines 208-236), outside
\* check mode, with the daemon reachable and no call of the invocation made
\* to fail (fail_at is the position, among the calls the invocation makes, of
\* the one the backend fails; 0 for none).
BaseReq ==
    [ service |-> <<>>, port |-> <<>>, source_port |-> <<>>, forward_port |-> <<>>,
      masquerade |-> Unset, rich_rule |-> <<>>, source |-> <<>>, interface |-> <<>>,
      icmp_block |-> <<>>, icmp_block_inversion |-> Unset, timeout |-> 0,
      target |-> Unset, zone |-> Unset, permanent |-> Unset, runtime |-> Unset,
      offline |-> Unset, state |-> "enabled", check_mode |-> FALSE,
      connected |-> TRUE, fail_at |-> 0 ]

\* The lists a request may give for a kind: up to MaxLen of its two items, in
\* any order, repetitions included.
Lists(kind) == UNION { [1..n -> {ItemA(kind), ItemB(kind)}] : n \in 1..MaxLen }

\* One content field of a request set to a representative value.
Tags == ListKinds \cup { "masquerade", "masquerade=false", "icmp_block_inversion",
                         "icmp_block_inversion=false", "target", "zone" }

SetTag(r, tag) ==
    CASE tag \in ListKinds -> [r EXCEPT ![tag] = <<ItemA(tag)>>]
      [] tag = "masquerade" -> [r EXCEPT !.masquerade = True]
      [] tag = "masquerade=false" -> [r EXCEPT !.masquerade = False]
      [] tag = "icmp_block_inversion" -> [r EXCEPT !.icmp_block_inversion = True]
      [] tag = "icmp_block_inversion=false" -> [r EXCEPT !.icmp_block_inversion = False]
      [] tag = "target" -> [r EXCEPT !.target = "DROP"]
      [] tag = "zone" -> [r EXCEPT !.zone = "work"]

\* Requests by what they name: nothing, one field, or two fields together.
Shapes ==
    {BaseReq} \cup { SetTag(SetTag(BaseReq, t), u) : t \in Tags, u \in Tags }

\* Requests that name one kind of entry, with every list of it.
OneKind == UNION { { [BaseReq EXCEPT ![k] = l] : l \in Lists(k) } : k \in ListKinds }

\* Requests that name an item the module cannot parse, an unknown zone, or
\* another target.
Oddities ==
    { [BaseReq EXCEPT ![k] = <<ItemA(k), ItemBad(k)>>] : k \in ParsedKinds }
    \cup { [BaseReq EXCEPT !.zone = "nozone", !.service = <<"ssh">>],
           [BaseReq EXCEPT !.target = "default"] }

\* A request that names every kind at once.
Everything ==
    [ [ k \in DOMAIN BaseReq |-> IF k \in ListKinds THEN <<ItemA(k), ItemB(k)>>
                                 ELSE BaseReq[k] ]
      EXCEPT !.masquerade = True, !.icmp_block_inversion = True, !.target = "DROP" ]

Contents == Shapes \cup OneKind \cup Oddities \cup {Everything}

\* How a request selects its planes: permanent, runtime, offline, and whether
\* the daemon is running when it is made.
Selection(pm, ru, off, cn) ==
    [permanent |-> pm, runtime |-> ru, offline |-> off, connected |-> cn]

\* The selections every content is tried under: runtime alone (the default),
\* permanent alone, both, permanent explicitly off with nothing else said, and
\* offline with the daemon down.
MainSelections ==
    { Selection(Unset, Unset, Unset, TRUE), Selection(True, Unset, Unset, TRUE),
      Selection(True, True, Unset, TRUE), Selection(False, Unset, Unset, TRUE),
      Selection(Unset, Unset, True, FALSE) }

AllSelections ==
    { Selection(pm, ru, off, cn) : pm \in Tri, ru \in Tri, off \in Tri, cn \in BOOLEAN }

\* The contents every selection is tried with.
MainContents ==
    { BaseReq, SetTag(BaseReq, "service"), SetTag(BaseReq, "source"),
      SetTag(BaseReq, "masquerade"), SetTag(BaseReq, "target") }

Under(c, sel, s, t, cm) ==
    [ c EXCEPT !.permanent = sel.permanent, !.runtime = sel.runtime,
               !.offline = sel.offline, !.connected = sel.connected,
               !.state = s, !.timeout = t, !.check_mode = cm ]

\* The requests the model makes: every content under the main selections and
\* the main contents under every selection; both states, with and without a
\* timeout, in and out of check mode.
Requests ==
    { Under(c, sel, s, t, cm) :
        c \in Contents, sel \in MainSelections,
        s \in {"enabled", "disabled"}, t \in {0, SomeTimeout}, cm \in BOOLEAN }
    \cup
    { Under(c, sel, s, t, cm) :
        c \in MainContents, sel \in AllSelections,
        s \in {"enabled", "disabled"}, t \in {0, SomeTimeout}, cm \in BOOLEAN }

\* ---------------------------------------------------------------- Init
NoLocals ==
    [ runtime |-> Unset, permanent |-> Unset, zone |-> DefaultZone,
      fw_offline |-> FALSE, ent |-> [k \in ListKinds |-> <<>>] ]

NoResult == [status |-> "none", changed |-> FALSE, msg |-> ""]

NoPrev ==
    [ params |-> BaseReq, start |-> <<>>, result |-> NoResult, calls |-> <<>>,
      expired |-> FALSE ]

\* The planes before the first invocation.  The default zone holds the first
\* item of every kind, both toggles and the DROP target, or none of them, on
\* each plane independently; the zone "work" holds the second items on both.
Init ==
    /\ \E ra \in BOOLEAN :
         rt = [z \in Zones |-> IF z = DefaultZone
                               THEN (IF ra THEN KeysA ELSE NoKeys) ELSE KeysB]
    /\ \E pa \in BOOLEAN :
         perm = [z \in Zones |->
                   IF z = DefaultZone
                   THEN (IF pa THEN ZoneConfig(KeysA, "DROP") ELSE ZoneConfig(NoKeys, "default"))
                   ELSE ZoneConfig(KeysB, "ACCEPT")]
    /\ timed = {}
    /\ pc = [p \in Procs |-> "idle"]
    /\ params = [p \in Procs |-> BaseReq]
    /\ locals = [p \in Procs |-> NoLocals]
    /\ fw_settings = [p \in Procs |-> ZoneConfig(NoKeys, "default")]
    /\ changed = [p \in Procs |-> FALSE]
    /\ calls = [p \in Procs |-> <<>>]
    /\ result = [p \in Procs |-> NoResult]
    /\ start = [p \in Procs |-> <<rt, perm, {}>>]
    /\ expired = [p \in Procs |-> FALSE]
    /\ prev = [p \in Procs |-> NoPrev]
    /\ runs = [p \in Procs |-> 0]

\* ---------------------------------------------------------------- main()
\* Whether the block of the kind has anything to do for the request.
HasWork(prm, ent, kind) ==
    IF kind \in ListKinds THEN Len(ent[kind]) > 0 ELSE prm[kind] # Unset

\* The first block from the i-th on that has something to do; the apply step
\* (lines 661-668) when none has.
RECURSIVE BlockFrom(_, _, _)
BlockFrom(prm, ent, i) ==
    IF i > Len(KindOrder) THEN "apply"
    ELSE IF HasWork(prm, ent, KindOrder[i]) THEN KindOrder[i]
    ELSE BlockFrom(prm, ent, i + 1)

IndexOf(kind) == CHOOSE i \in 1..Len(KindOrder) : KindOrder[i] = kind

\* The invocation of process q is between its start and its end.
Running(q) == pc[q] \notin {"idle", "done", "failed"}

\* Lines 207-420: the module parses and checks its parameters, connects, and
\* loads the settings of the permanent zone; any failure ends the invocation
\* before a loop is entered.
BeginWith(p, prm, parsed, checked) ==
    LET conn == Connect(prm, RuntimeAfterSelection(prm))
        zn == ResolveZone(prm, conn)
        load == Call("permanent", "getSettings", "zone", zn.zone)
        early == IF checked # "" THEN checked
                 ELSE IF conn.msg # "" THEN conn.msg
                 ELSE zn.msg
        msg == IF early = "" /\ prm.fail_at = 1 THEN MsgBackendError ELSE early
    IN /\ params' = [params EXCEPT ![p] = prm]
       /\ start' = [start EXCEPT ![p] = <<rt, perm, { q \in Procs \ {p} : Running(q) }>>]
       /\ expired' = [expired EXCEPT ![p] = FALSE]
       /\ runs' = [runs EXCEPT ![p] = @ + 1]
       /\ changed' = [changed EXCEPT ![p] = FALSE]
       /\ IF msg # ""
          THEN /\ pc' = [pc EXCEPT ![p] = "failed"]
               /\ result' = [result EXCEPT ![p] =
                               [status |-> "failed", changed |-> FALSE, msg |-> msg]]
               /\ locals' = [locals EXCEPT ![p] = NoLocals]
               /\ calls' = [calls EXCEPT ![p] = IF early = "" THEN <<load>> ELSE <<>>]
               /\ fw_settings' = [fw_settings EXCEPT ![p] = ZoneConfig(NoKeys, "default")]
          ELSE /\ pc' = [pc EXCEPT ![p] = BlockFrom(prm, parsed.ent, 1)]
               /\ result' = [result EXCEPT ![p] = NoResult]
               /\ locals' = [locals EXCEPT ![p] =
                               [ runtime |-> conn.runtime, permanent |-> conn.permanent,
                                 zone |-> zn.zone, fw_offline |-> conn.fw_offline,
                                 ent |-> parsed.ent ]]
               /\ calls' = [calls EXCEPT ![p] = <<load>>]
               /\ fw_settings' = [fw_settings EXCEPT ![p] = perm[zn.zone]]
       /\ UNCHANGED <<rt, timed, perm>>

\* Lines 241-343: the failure of the parsing or of the parameter checks; ""
\* when the request passes both.
Checked(prm, parsed) ==
    IF parsed.err # "" THEN parsed.err ELSE Validate(prm, parsed.ent)

\* An invocation with the parameters prm.
Begin(p, prm) == BeginWith(p, prm, ParseParams(prm), Checked(prm, ParseParams(prm)))

\* The first invocation of a process, with any request.
Main(p) ==
    /\ pc[p] = "idle"
    /\ \E prm \in Requests : Begin(p, prm)
    /\ UNCHANGED prev

\* The invocation that just ended, as the next one remembers it.
Ended(p) ==
    [ params |-> params[p], start |-> start[p], result |-> result[p],
      calls |-> calls[p], expired |-> expired[p] ]

\* The same request made once more, outside check mode, after the invocation
\* before it has ended.
Rerun(p) ==
    /\ pc[p] \in {"done", "failed"}
    /\ runs[p] < MaxRuns
    /\ prev' = [prev EXCEPT ![p] = Ended(p)]
    /\ Begin(p, [params[p] EXCEPT !.check_mode = FALSE])

\* The request that takes back what `prm` asked for: the same lists, zone,
\* target and plane selectors with state disabled; no timeout and no toggle
\* given as true, which state disabled refuses (lines 303-312).
Undo(prm) ==
    [ prm EXCEPT !.state = "disabled", !.timeout = 0, !.check_mode = FALSE,
                 !.masquerade = IF Truthy(@) THEN False ELSE @,
                 !.icmp_block_inversion = IF Truthy(@) THEN False ELSE @ ]

\* After an enabling invocation has succeeded, the invocation that takes it
\* back.
Disable(p) ==
    /\ pc[p] = "done"
    /\ params[p].state = "enabled"
    /\ runs[p] < MaxRuns
    /\ prev' = [prev EXCEPT ![p] = Ended(p)]
    /\ Begin(p, Undo(params[p]))

\* A variant that writes the settings object back at the end of every block.
LeaveWritesThrough(p, kind, st) ==
    /\ rt' = st.rt
    /\ timed' = st.timed
    /\ perm' = [perm EXCEPT ![locals[p].zone] = st.fs]
    /\ fw_settings' = [fw_settings EXCEPT ![p] = st.fs]
    /\ changed' = [changed EXCEPT ![p] = st.changed]
    /\ calls' = [calls EXCEPT ![p] = st.calls]
    /\ IF st.msg # ""
       THEN /\ pc' = [pc EXCEPT ![p] = "failed"]
            /\ result' = [result EXCEPT ![p] =
                            [status |-> "failed", changed |-> FALSE, msg |-> st.msg]]
       ELSE /\ pc' = [pc EXCEPT ![p] =
                        BlockFrom(params[p], locals[p].ent, IndexOf(kind) + 1)]
            /\ UNCHANGED result
    /\ UNCHANGED <<params, locals, start, expired, prev, runs>>

\* What a block leaves behind: the planes and the invocation's own state; a
\* call that raised ends the invocation.
Leave(p, kind, st) ==
    /\ rt' = st.rt
    /\ timed' = st.timed
    /\ fw_settings' = [fw_settings EXCEPT ![p] = st.fs]
    /\ changed' = [changed EXCEPT ![p] = st.changed]
    /\ calls' = [calls EXCEPT ![p] = st.calls]
    /\ IF st.msg # ""
       THEN /\ pc' = [pc EXCEPT ![p] = "failed"]
            /\ result' = [result EXCEPT ![p] =
                            [status |-> "failed", changed |-> FALSE, msg |-> st.msg]]
       ELSE /\ pc' = [pc EXCEPT ![p] =
                        BlockFrom(params[p], locals[p].ent, IndexOf(kind) + 1)]
            /\ UNCHANGED result
    /\ UNCHANGED <<perm, params, locals, start, expired, prev, runs>>

\* The loop over one kind of entry.
ListBlock(p, kind) ==
    /\ pc[p] = kind
    /\ Leave(p, kind, ListLoop(LoopState(p), Context(p), kind, locals[p].ent[kind]))

\* Lines 426-444
Service(p) == ListBlock(p, "service")
\* Lines 446-465
Port(p) == ListBlock(p, "port")
\* Lines 467-486
SourcePort(p) == ListBlock(p, "source_port")
\* Lines 488-520
ForwardPort(p) == ListBlock(p, "forward_port")
\* Lines 543-562
RichRule(p) == ListBlock(p, "rich_rule")
\* Lines 564-583
Source(p) == ListBlock(p, "source")
\* Lines 585-604
Interface(p) == ListBlock(p, "interface")
\* Lines 606-625
IcmpBlock(p) == ListBlock(p, "icmp_block")

\* A variant that reconciles masquerade by the state, as the lists are.
MasqueradeByState(p) ==
    /\ pc[p] = "masquerade"
    /\ Leave(p, "masquerade",
             ToggleBlock(LoopState(p), Context(p), "masquerade",
                         IF params[p].state = "enabled" THEN True ELSE False))

\* Lines 522-541
Masquerade(p) ==
    /\ pc[p] = "masquerade"
    /\ Leave(p, "masquerade",
             ToggleBlock(LoopState(p), Context(p), "masquerade", params[p].masquerade))

\* Lines 627-646
IcmpBlockInversion(p) ==
    /\ pc[p] = "icmp_block_inversion"
    /\ Leave(p, "icmp_block_inversion",
             ToggleBlock(LoopState(p), Context(p), "icmp_block_inversion",
                         params[p].icmp_block_inversion))

\* Lines 648-659
Target(p) ==
    /\ pc[p] = "target"
    /\ Leave(p, "target", TargetBlock(LoopState(p), Context(p), params[p].target))

\* A variant that writes the settings object back whatever permanent says.
CommitsAlways(c) == TRUE

\* Line 662: the settings object is written back when permanent is on, in
\* check mode as well.
Commits(c) == Truthy(c.permanent)

\* Lines 661-668: the one update of the permanent zone, then exit_json.
Apply(p) ==
    /\ pc[p] = "apply"
    /\ IF Commits(Context(p))
       THEN /\ calls' = [calls EXCEPT ![p] =
                           Append(@, Call("permanent", "update", "zone", locals[p].zone))]
            /\ perm' = IF Raises(LoopState(p), Context(p)) THEN perm
                       ELSE [perm EXCEPT ![locals[p].zone] = fw_settings[p]]
       ELSE UNCHANGED <<perm, calls>>
    /\ IF Commits(Context(p)) /\ Raises(LoopState(p), Context(p))
       THEN /\ result' = [result EXCEPT ![p] =
                            [status |-> "failed", changed |-> FALSE, msg |-> MsgBackendError]]
            /\ pc' = [pc EXCEPT ![p] = "failed"]
       ELSE /\ result' = [result EXCEPT ![p] =
                            [status |-> "ok", changed |-> changed[p], msg |-> ""]]
            /\ pc' = [pc EXCEPT ![p] = "done"]
    /\ UNCHANGED <<rt, timed, params, locals, fw_settings, changed, start, expired,
                   prev, runs>>

\* The daemon drops the runtime entries whose timeout has run out.
Expire ==
    /\ timed # {}
    /\ rt' = [z \in Zones |-> [k \in EntryKinds |->
                 { key \in rt[z][k] : <<z, k, key>> \notin timed }]]
    /\ timed' = {}
    /\ expired' = [p \in Procs |-> TRUE]
    /\ UNCHANGED <<perm, pc, params, locals, fw_settings, changed, calls, result,
                   start, prev, runs>>

\* One step of the invocation of process p.
Step(p) ==
    \/ Main(p)
    \/ Rerun(p)
    \/ Service(p)
    \/ Port(p)
    \/ SourcePort(p)
    \/ ForwardPort(p)
    \/ Masquerade(p)
    \/ RichRule(p)
    \/ Source(p)
    \/ Interface(p)
    \/ IcmpBlock(p)
    \/ IcmpBlockInversion(p)
    \/ Target(p)
    \/ Apply(p)

\* Invocations are made one after the other, by one process.
Next == Step(1) \/ Expire

Spec == Init /\ [][Next]_vars

\* One step of process p when an enabling invocation is followed by the one
\* that takes it back.
StepSym(p) ==
    \/ Main(p)
    \/ Disable(p)
    \/ Service(p)
    \/ Port(p)
    \/ SourcePort(p)
    \/ ForwardPort(p)
    \/ Masquerade(p)
    \/ RichRule(p)
    \/ Source(p)
    \/ Interface(p)
    \/ IcmpBlock(p)
    \/ IcmpBlockInversion(p)
    \/ Target(p)
    \/ Apply(p)

NextSym == StepSym(1) \/ Expire

SpecSym == Init /\ [][NextSym]_vars

\* Two invocations on the permanent plane at once.  Each names one service
\* or one port, for either state, in or out of check mode, in the default
\* zone or in "work", with permanent on and runtime on or left out.
ConcContents ==
    { [BaseReq EXCEPT !.service = <<x>>] : x \in {ItemA("service"), ItemB("service")} }
    \cup { [BaseReq EXCEPT !.port = <<ItemA("port")>>] }

ConcRequests ==
    { [ Under(c, Selection(True, ru, Unset, TRUE), s, 0, cm) EXCEPT !.zone = z ] :
        c \in ConcContents, ru \in {Unset, True}, s \in {"enabled", "disabled"},
        cm \in BOOLEAN, z \in {Unset, "work"} }

\* The invocation of a process that may run beside another.
MainConc(p) ==
    /\ pc[p] = "idle"
    /\ \E prm \in ConcRequests : Begin(p, prm)
    /\ UNCHANGED prev

StepConc(p) ==
    \/ MainConc(p)
    \/ Service(p)
    \/ Port(p)
    \/ Apply(p)

\* Nothing orders the steps of the two processes: the module takes no lock
\* between loading the settings (lines 419-420) and writing them back (lines
\* 661-666).
NextConc == StepConc(1) \/ StepConc(2)

SpecConc == Init /\ [][NextConc]_vars

\* The port and forward_port strings the parsers are tried on: every string
\* of up to MaxStr characters over a digit, a letter and the separators, and
\* the strings "80-82/tcp", "80", "80/tcp;8080;" and "80/tcp;8080".
Strings(chars) == UNION { [1..n -> chars] : n \in 0..MaxStr }

PortStrings ==
    Strings({"8", "/", "t"})
    \cup { <<"8", "0", "-", "8", "2", "/", "t", "c", "p">>, <<"8", "0">> }

ForwardPortStrings ==
    Strings({"8", "/", "t", ";"})
    \cup { <<"8", "0", "/", "t", "c", "p", ";", "8", "0", "8", "0", ";">>,
           <<"8", "0", "/", "t", "c", "p", ";", "8", "0", "8", "0">> }

ParseRequests ==
    { [BaseReq EXCEPT !.port = <<s>>] : s \in PortStrings }
    \cup { [BaseReq EXCEPT !.forward_port = <<s>>] : s \in ForwardPortStrings }

\* An invocation about to be made with one port or forward_port string, on
\* planes that hold nothing in the default zone.
InitParse ==
    /\ rt = [z \in Zones |-> IF z = DefaultZone THEN NoKeys ELSE KeysB]
    /\ perm = [z \in Zones |-> IF z = DefaultZone THEN ZoneConfig(NoKeys, "default")
                                ELSE ZoneConfig(KeysB, "ACCEPT")]
    /\ timed = {}
    /\ pc = [p \in Procs |-> "idle"]
    /\ \E prm \in ParseRequests : params = [p \in Procs |-> prm]
    /\ locals = [p \in Procs |-> NoLocals]
    /\ fw_settings = [p \in Procs |-> ZoneConfig(NoKeys, "default")]
    /\ changed = [p \in Procs |-> FALSE]
    /\ calls = [p \in Procs |-> <<>>]
    /\ result = [p \in Procs |-> NoResult]
    /\ start = [p \in Procs |-> <<rt, perm, {}>>]
    /\ expired = [p \in Procs |-> FALSE]
    /\ prev = [p \in Procs |-> NoPrev]
    /\ runs = [p \in Procs |-> 0]

\* Lines 241-252: the invocation parses the string it was given, and goes on
\* from there.
Parse(p) ==
    /\ pc[p] = "idle"
    /\ Begin(p, params[p])
    /\ UNCHANGED prev

StepParse(p) ==
    \/ Parse(p)
    \/ Port(p)
    \/ ForwardPort(p)
    \/ Apply(p)

NextParse == StepParse(1)

SpecParse == InitParse /\ [][NextParse]_vars

\* Invocations in which the backend fails one of the first MaxFail calls:
\* the requests that name up to two things, and the one that names
\* everything, on the runtime plane, the permanent plane and both.
FailSelections ==
    { Selection(Unset, Unset, Unset, TRUE), Selection(True, Unset, Unset, TRUE),
      Selection(True, True, Unset, TRUE) }

FailRequests ==
    { [ Under(c, sel, s, 0, cm) EXCEPT !.fail_at = n ] :
        c \in Shapes \cup {Everything}, sel \in FailSelections,
        s \in {"enabled", "disabled"}, cm \in BOOLEAN, n \in 1..MaxFail }

MainFail(p) ==
    /\ pc[p] = "idle"
    /\ \E prm \in FailRequests : Begin(p, prm)
    /\ UNCHANGED prev

StepFail(p) ==
    \/ MainFail(p)
    \/ Service(p)
    \/ Port(p)
    \/ SourcePort(p)
    \/ ForwardPort(p)
    \/ Masquerade(p)
    \/ RichRule(p)
    \/ Source(p)
    \/ Interface(p)
    \/ IcmpBlock(p)
    \/ IcmpBlockInversion(p)
    \/ Target(p)
    \/ Apply(p)

NextFail == StepFail(1)

SpecFail == Init /\ [][NextFail]_vars

\* ------------------------------------------------------ reading the state
Began(p) == pc[p] # "idle"
Succeeded(p) == pc[p] = "done" /\ result[p].status = "ok"
DryRun(p) == params[p].check_mode
RuntimeActive(p) == Truthy(locals[p].runtime)
PermanentActive(p) == Truthy(locals[p].permanent)

\* The keys the request names for a kind.
Requested(p, kind) == { locals[p].ent[kind][i] : i \in DOMAIN locals[p].ent[kind] }

\* The operations of the calls the invocation made, and how many of them
\* were the update of the permanent zone.
Ops(p) == { calls[p][i][2] : i \in DOMAIN calls[p] }
MutatingOps == {"add", "remove", "setTarget"}
ReadingOps == {"query", "getTarget", "getSettings"}
Updates(p) == Cardinality({ i \in DOMAIN calls[p] : calls[p][i][2] = "update" })

\* A failure raised by the parameter checks of lines 271-343.
ValidationMsgs ==
    { MsgNoPlane, MsgEmpty, MsgDisabledTimeout, MsgDisabledMasquerade,
      MsgDisabledInversion, MsgTimeoutInversion, MsgTimeoutSource,
      MsgTimeoutInterface, MsgTimeoutTarget }

\* The list parameters of the request all parse.
Parses(p) == ParseParams(params[p]).err = ""

\* The request got past the parameter checks.
PassedValidation(p) ==
    /\ Began(p)
    /\ Parses(p)
    /\ pc[p] = "failed" => result[p].msg \notin ValidationMsgs

\* ------------------------------------------------------------------ claims

\* C1: after a successful invocation outside check mode, with no timeout run
\* out meanwhile, every requested entry of every list kind is present on each
\* active plane when the state is enabled and absent when it is disabled.
C1_Converged ==
    \A p \in Procs :
        (Succeeded(p) /\ ~DryRun(p) /\ ~expired[p]) =>
            \A k \in ListKinds : \A key \in Requested(p, k) :
                /\ RuntimeActive(p) =>
                     ((key \in rt[locals[p].zone][k]) = (params[p].state = "enabled"))
                /\ PermanentActive(p) =>
                     ((key \in perm[locals[p].zone].ent[k]) = (params[p].state = "enabled"))

\* A successful enabling run on both planes that had to add on each.
C1_Witness ==
    /\ Succeeded(1) /\ ~DryRun(1) /\ ~expired[1]
    /\ RuntimeActive(1) /\ PermanentActive(1)
    /\ params[1].state = "enabled"
    /\ \E i, j \in DOMAIN calls[1] :
          /\ calls[1][i][1] = "runtime" /\ calls[1][i][2] = "add"
          /\ calls[1][j][1] = "permanent" /\ calls[1][j][2] = "add"

\* The requested entries were all absent from the active planes when the
\* invocation before this one began.
AbsentBefore(p) ==
    \A k \in ListKinds : \A key \in Requested(p, k) :
        /\ RuntimeActive(p) => key \notin prev[p].start[1][locals[p].zone][k]
        /\ PermanentActive(p) => key \notin prev[p].start[2][locals[p].zone].ent[k]

\* Two successful runs of the same request outside check mode, one right after
\* the other, with no timeout run out since the first began.
TwiceInSuccession(p) ==
    /\ Succeeded(p) /\ runs[p] >= 2
    /\ prev[p].result.status = "ok"
    /\ prev[p].params = params[p] /\ ~DryRun(p)
    /\ ~prev[p].expired /\ ~expired[p]

\* C2: a request with state enabled whose entries are not yet present on the
\* active planes, run twice in succession outside check mode, reports changed
\* the first time and unchanged the second.
C2_Idempotent ==
    \A p \in Procs :
        ( /\ TwiceInSuccession(p)
          /\ params[p].state = "enabled"
          /\ TotalEntries(locals[p].ent) > 0
          /\ AbsentBefore(p) )
        => (prev[p].result.changed /\ ~result[p].changed)

\* C3: outside check mode the invocation reports changed exactly when it made
\* a mutating call (add, remove or setTarget) on a plane.
C3_ChangedIffMutated ==
    \A p \in Procs :
        (Succeeded(p) /\ ~DryRun(p)) =>
            (result[p].changed <=> (Ops(p) \cap MutatingOps # {}))

\* C4: in check mode only reading calls are made: no add, remove, setTarget
\* and no update of the permanent zone.
C4_DryRunOnlyQueries ==
    \A p \in Procs : (Began(p) /\ DryRun(p)) => Ops(p) \subseteq ReadingOps

\* C5: a check-mode invocation leaves both planes as they were when it began
\* (timeouts running out aside), at every step and when it has ended.
C5_DryRunPure ==
    \A p \in Procs :
        (Began(p) /\ DryRun(p) /\ ~expired[p]) =>
            (rt = start[p][1] /\ perm = start[p][2])

\* A check-mode run on the permanent plane that reported a change and ended.
C5_Witness ==
    /\ Succeeded(1) /\ DryRun(1) /\ ~expired[1]
    /\ PermanentActive(1) /\ RuntimeActive(1)
    /\ result[1].changed
    /\ TotalEntries(locals[1].ent) > 0

\* C6: from the same state of the planes, a request reports the same changed
\* in check mode as outside it (and fails in the one when it fails in the
\* other), lists with repeated entries included.
C6_DryRunSameChanged ==
    \A p \in Procs :
        ( /\ pc[p] \in {"done", "failed"} /\ runs[p] >= 2
          /\ prev[p].params.check_mode /\ ~DryRun(p)
          /\ prev[p].params = [params[p] EXCEPT !.check_mode = TRUE]
          /\ prev[p].start = start[p] )
        => /\ prev[p].result.status = result[p].status
           /\ prev[p].result.changed = result[p].changed

\* A check-mode run and then a real run of a request that lists an absent
\* entry twice, both reporting changed.
C6_Witness ==
    /\ Succeeded(1) /\ runs[1] >= 2 /\ ~DryRun(1)
    /\ prev[1].params.check_mode
    /\ prev[1].start = start[1]
    /\ prev[1].result.changed /\ result[1].changed
    /\ \E k \in ListKinds :
          /\ Len(locals[1].ent[k]) = 2
          /\ locals[1].ent[k][1] = locals[1].ent[k][2]

\* C7: a successful invocation with the permanent plane active updates the
\* zone exactly once, as its last call, after every block; one without it
\* never does; and no update is made while the blocks are still running.
C7_OneCommitLast ==
    \A p \in Procs :
        /\ (Began(p) /\ pc[p] # "done") => Updates(p) = 0
        /\ Succeeded(p) =>
              IF PermanentActive(p)
              THEN /\ Updates(p) = 1
                   /\ calls[p][Len(calls[p])][2] = "update"
              ELSE Updates(p) = 0

\* A successful run that mutated both planes in several blocks before its
\* update.
C7_Witness ==
    /\ Succeeded(1) /\ PermanentActive(1) /\ RuntimeActive(1)
    /\ Updates(1) = 1
    /\ Cardinality({ calls[1][i][3] : i \in { j \in DOMAIN calls[1] :
                        calls[1][j][2] \in MutatingOps } }) >= 3

\* C8 as stated: state disabled with a positive timeout always yields the
\* "timeout can not be used with state: disabled" failure, before any call,
\* whatever the other fields.
C8_AlwaysIncompatible ==
    \A p \in Procs :
        (Began(p) /\ Parses(p) /\ params[p].state = "disabled" /\ params[p].timeout > 0)
        => (pc[p] = "failed" /\ result[p].msg = MsgDisabledTimeout /\ calls[p] = <<>>)

\* C8 amended: such a request is always refused before any call; the failure
\* is the plane-selection one when permanent, runtime and offline are all
\* given false, else the empty-request one when it names nothing, else the
\* disabled-timeout one.
C8_RefusedInOrder ==
    \A p \in Procs :
        (Began(p) /\ Parses(p) /\ params[p].state = "disabled" /\ params[p].timeout > 0)
        => /\ pc[p] = "failed"
           /\ calls[p] = <<>>
           /\ result[p].msg =
                IF /\ params[p].permanent = False /\ params[p].runtime = False
                   /\ params[p].offline = False
                THEN MsgNoPlane
                ELSE IF /\ \A k \in ListKinds : params[p][k] = <<>>
                        /\ \A f \in {"masquerade", "icmp_block_inversion", "target", "zone"} :
                              params[p][f] = Unset
                THEN MsgEmpty
                ELSE MsgDisabledTimeout

\* A disabled request with a timeout and an entry, refused for the timeout.
C8_Witness ==
    /\ pc[1] = "failed" /\ params[1].state = "disabled" /\ params[1].timeout > 0
    /\ params[1].service # <<>>
    /\ result[1].msg = MsgDisabledTimeout

\* C9: permanent given false with neither runtime nor offline true is refused
\* for selecting no plane, so an invocation that gets past the checks has the
\* runtime or the permanent plane active.
C9_PlaneSelected ==
    \A p \in Procs :
        (Began(p) /\ Parses(p) /\ params[p].connected /\ params[p].service # <<>>) =>
            /\ ( /\ params[p].permanent = False
                 /\ params[p].runtime # True
                 /\ params[p].offline # True )
               => (pc[p] = "failed" /\ result[p].msg = MsgNoPlane)
            /\ pc[p] # "failed" => (RuntimeActive(p) \/ PermanentActive(p))

\* The request carries something a timeout applies to.
TimeoutBearing(prm) ==
    \/ \E k \in {"service", "port", "source_port", "forward_port", "rich_rule",
                 "icmp_block"} : prm[k] # <<>>
    \/ prm.masquerade = True

\* C10: a request with a positive timeout that gets past the parameter checks
\* carries a timeout-bearing item; one that carries none is refused with one
\* of the "timeout can not be used with ... only" failures before any call.
C10_TimeoutScoped ==
    \A p \in Procs :
        (Began(p) /\ Parses(p) /\ params[p].timeout > 0 /\ params[p].state = "enabled"
         /\ ~NoPlaneSelected(params[p])
         /\ ~EmptyRequest(params[p], ParseParams(params[p]).ent))
        => /\ PassedValidation(p) => TimeoutBearing(params[p])
           /\ ~TimeoutBearing(params[p]) =>
                 /\ pc[p] = "failed" /\ calls[p] = <<>>
                 /\ result[p].msg \in { MsgTimeoutInversion, MsgTimeoutSource,
                                        MsgTimeoutInterface, MsgTimeoutTarget }

\* The request names no entry, toggle, target or zone: its lists as given.
NamesNothing(p) == EmptyRequest(params[p], params[p])

\* The request names a zone and nothing else.
NamesZoneOnly(p) ==
    /\ params[p].zone # Unset
    /\ EmptyRequest([params[p] EXCEPT !.zone = Unset], params[p])

\* C11 as stated: a request that names nothing fails with the empty-request
\* message before any call on a plane, and a request that names a zone alone
\* does not fail with that message.
C11_EmptyRefused ==
    \A p \in Procs : Began(p) =>
        /\ NamesNothing(p) =>
             (pc[p] = "failed" /\ result[p].msg = MsgEmpty /\ calls[p] = <<>>)
        /\ NamesZoneOnly(p) => result[p].msg # MsgEmpty

\* C11: a request that names nothing fails before any call on a plane, with
\* the no-plane message when permanent, runtime and offline are all given as
\* false and with the empty-request message otherwise; a request that names a
\* zone alone never fails with the empty-request message.
C11_EmptyRefusedAfterPlanes ==
    \A p \in Procs : Began(p) =>
        /\ NamesNothing(p) =>
             /\ pc[p] = "failed" /\ calls[p] = <<>>
             /\ result[p].msg = IF NoPlaneSelected(params[p]) THEN MsgNoPlane ELSE MsgEmpty
        /\ NamesZoneOnly(p) => result[p].msg # MsgEmpty

\* A request that names nothing, refused as empty with no call made.
C11_Witness ==
    /\ NamesNothing(1) /\ ~NoPlaneSelected(params[1])
    /\ pc[1] = "failed" /\ result[1].msg = MsgEmpty /\ calls[1] = <<>>

\* A successful disabling run outside check mode that follows a successful
\* enabling run, outside check mode, of the request it takes back.
EnabledThenDisabled(p) ==
    /\ Succeeded(p) /\ runs[p] >= 2 /\ ~DryRun(p)
    /\ prev[p].result.status = "ok" /\ ~prev[p].params.check_mode
    /\ prev[p].params.state = "enabled"
    /\ params[p] = Undo(prev[p].params)

AllEnded == \A p \in Procs : pc[p] \in {"done", "failed"}
Serialized == \A p \in Procs : start[p][3] = {}

\* The other process named the key of the kind in the same zone.
NamedByOther(p, k, key) ==
    \E q \in Procs \ {p} : locals[q].zone = locals[p].zone /\ key \in Requested(q, k)

\* C13: when two invocations on the permanent plane run one after the other,
\* the persisted configuration keeps the update of each: every entry a
\* successful invocation outside check mode named, and the other did not, is
\* present when its state is enabled and absent when it is disabled.  (That
\* some interleaving loses an update is C13_LostUpdate.)
C13_SerialKeepsBoth ==
    (AllEnded /\ Serialized) =>
        \A p \in Procs : (Succeeded(p) /\ ~DryRun(p)) =>
            \A k \in ListKinds : \A key \in Requested(p, k) :
                ~NamedByOther(p, k, key) =>
                    ((key \in perm[locals[p].zone].ent[k]) = (params[p].state = "enabled"))

\* Two successful invocations outside check mode that overlapped: one added
\* an entry to its settings object and wrote it back, the other did not name
\* the entry, and the persisted configuration does not hold it.
C13_LostUpdate ==
    /\ AllEnded /\ ~Serialized
    /\ \A p \in Procs : Succeeded(p) /\ ~DryRun(p)
    /\ \E p \in Procs : \E i \in DOMAIN calls[p] :
          /\ calls[p][i][1] = "permanent" /\ calls[p][i][2] = "add"
          /\ ~NamedByOther(p, calls[p][i][3], calls[p][i][4])
          /\ calls[p][i][4] \notin perm[locals[p].zone].ent[calls[p][i][3]]

\* The character occurs in the string.
Has(s, ch) == \E i \in DOMAIN s : s[i] = ch

\* The string before and after its last occurrence of the character.
AtLast(s, ch) ==
    LET i == CHOOSE j \in DOMAIN s : s[j] = ch /\ \A m \in DOMAIN s : m > j => s[m] # ch
    IN <<SubSeq(s, 1, i - 1), SubSeq(s, i + 1, Len(s))>>

\* The invocation was given the one port string `s` and nothing else.
GivenPort(p) == Len(params[p].port) = 1 /\ params[p].forward_port = <<>>
GivenForwardPort(p) == Len(params[p].forward_port) = 1 /\ params[p].port = <<>>

\* The failures the parsers report through fail_json.
FormatErrors == {MsgImproperPort, MsgImproperForward, MsgForwardNoProtocol}

\* C14: a port string is split at its last '/' into port and protocol, and a
\* port string with no '/' is refused with the improper-port-format message
\* and with no other failure.
C14_ParsePort ==
    \A p \in Procs : (Began(p) /\ GivenPort(p)) =>
        LET s == params[p].port[1]
        IN IF Has(s, "/")
           THEN result[p].msg = "" /\ locals[p].ent["port"] = <<AtLast(s, "/")>>
           ELSE pc[p] = "failed" /\ result[p].msg = MsgImproperPort

\* How many times the character occurs in the string.
Count(s, ch) == Cardinality({ i \in DOMAIN s : s[i] = ch })

\* None for an empty segment.
OrAbsent(seg) == IF seg = <<>> THEN Absent ELSE seg

\* C15: a forward_port string that does not have three ';' segments is
\* refused with a format error; one that has three and no protocol in the
\* first is refused with a format error as well; one that has three and a
\* port and a protocol in the first is parsed into port, protocol, to-port
\* and to-address, an empty one of the last two being None.
C15_ParseForwardPort ==
    \A p \in Procs : (Began(p) /\ GivenForwardPort(p)) =>
        LET s == params[p].forward_port[1]
            args == Split(s, ";")
        IN /\ Len(args) # 3 =>
                (pc[p] = "failed" /\ result[p].msg \in FormatErrors)
           /\ (Len(args) = 3 /\ ~Has(args[1], "/")) =>
                (pc[p] = "failed" /\ result[p].msg \in FormatErrors)
           /\ (Len(args) = 3 /\ Count(args[1], "/") = 1) =>
                /\ result[p].msg = ""
                /\ locals[p].ent["forward_port"] =
                     << << AtLast(args[1], "/")[1], AtLast(args[1], "/")[2],
                           OrAbsent(args[2]), OrAbsent(args[3]) >> >>

\* C16: while an invocation is in progress, and after it has failed, the
\* persisted configuration is what it was when the invocation began; the
\* persisted configuration changes only in the step that ends a successful
\* invocation, and then the zone becomes exactly the settings object the
\* invocation buffered its mutations in.
C16_Buffered ==
    /\ [](\A p \in Procs : (Running(p) \/ pc[p] = "failed") => perm = start[p][2])
    /\ [][ perm' # perm =>
             \E p \in Procs :
                 /\ pc[p] = "apply" /\ pc'[p] = "done"
                 /\ perm' = [perm EXCEPT ![locals[p].zone] = fw_settings[p]] ]_vars

\* An invocation outside check mode about to write back a settings object
\* that differs from the persisted configuration, which is still as it was
\* when the invocation began.
C16_Witness ==
    /\ pc[1] = "apply" /\ ~DryRun(1) /\ PermanentActive(1)
    /\ fw_settings[1] # perm[locals[1].zone]
    /\ perm = start[1][2]

\* The invocation was ended by a call that failed.
BackendFailed(p) == pc[p] = "failed" /\ result[p].msg = MsgBackendError

\* The runtime calls of the operation that the invocation made, the failed
\* call (its last) aside.
MadeOnRuntime(p, op) ==
    { <<calls[p][i][3], calls[p][i][4]>> :
        i \in { j \in 1..(Len(calls[p]) - 1) :
                  calls[p][j][1] = "runtime" /\ calls[p][j][2] = op } }

\* C17: when a call fails, it is the last call the invocation makes: no
\* query, mutation or update follows it and no result is handed back;
\* nothing is undone or tried again, so the runtime plane is as the calls
\* before the failing one left it, and the persisted configuration is what
\* it was when the invocation began.
C17_AbortsAtFailure ==
    \A p \in Procs : BackendFailed(p) =>
        /\ Len(calls[p]) = params[p].fail_at
        /\ result[p].status = "failed" /\ ~result[p].changed
        /\ perm = start[p][2]
        /\ \A z \in Zones : \A k \in EntryKinds :
              rt[z][k] =
                IF z # locals[p].zone THEN start[p][1][z][k]
                ELSE (start[p][1][z][k]
                        \cup { e[2] : e \in { x \in MadeOnRuntime(p, "add") : x[1] = k } })
                     \ { e[2] : e \in { x \in MadeOnRuntime(p, "remove") : x[1] = k } }

\* An invocation that added an entry on the runtime plane and to its
\* settings object and was then ended by the failure of the update: the
\* entry stays on the runtime plane and the settings object is not persisted.
C17_Witness ==
    /\ BackendFailed(1)
    /\ MadeOnRuntime(1, "add") # {}
    /\ calls[1][Len(calls[1])][2] = "update"
    /\ rt # start[1][1]
    /\ fw_settings[1] # perm[locals[1].zone]

\* The request names a target, and the persisted target of the zone was
\* another when the invocation began.
TargetDiffers(p) ==
    /\ params[p].target # Unset
    /\ start[p][2][locals[p].zone].target # params[p].target

\* The calls of the invocation that read or set the target.
TargetCalls(p, op) == { i \in DOMAIN calls[p] : calls[p][i][2] = op }

CalledRuntime(p, op, kind, key) ==
    \E i \in DOMAIN calls[p] : calls[p][i] = Call("runtime", op, kind, key)

\* C19: when the runtime flag is not true, the only calls an invocation makes
\* on the runtime plane are those about source entries; and whatever the
\* flag says, a successful invocation has queried every source entry it names
\* on the runtime plane and, outside check mode, leaves it present there for
\* state enabled and absent for state disabled.
C19_RuntimeGated ==
    \A p \in Procs : Began(p) =>
        /\ ~RuntimeActive(p) =>
             \A i \in DOMAIN calls[p] :
                 calls[p][i][1] = "runtime" => calls[p][i][3] = "source"
        /\ Succeeded(p) =>
             \A key \in Requested(p, "source") :
                 /\ CalledRuntime(p, "query", "source", key)
                 /\ ~DryRun(p) =>
                      ((key \in rt[locals[p].zone]["source"]) = (params[p].state = "enabled"))

\* A successful run on the permanent plane alone that names a service and a
\* source: the source was added on the runtime plane, the service was not
\* asked about there.
C19_Witness ==
    /\ Succeeded(1) /\ ~DryRun(1) /\ ~RuntimeActive(1) /\ PermanentActive(1)
    /\ Requested(1, "service") # {}
    /\ \E key \in Requested(1, "source") : CalledRuntime(1, "add", "source", key)
    /\ \A i \in DOMAIN calls[1] : calls[1][i][3] # "service" \/ calls[1][i][1] = "permanent"

\* C20: an invocation that serves the request offline has runtime off and
\* permanent on whatever the caller gave, makes no call on the runtime plane
\* for any kind of entry, and when it succeeds has written the settings
\* object back once, as its last call.
C20_OfflinePermanentOnly ==
    \A p \in Procs : (Began(p) /\ locals[p].fw_offline) =>
        /\ locals[p].runtime = False /\ locals[p].permanent = True
        /\ \A i \in DOMAIN calls[p] : calls[p][i][1] # "runtime"
        /\ Succeeded(p) =>
             (Updates(p) = 1 /\ calls[p][Len(calls[p])][2] = "update")

\* The request gives a toggle as true with state disabled.
TrueToggleDisabled(p) ==
    /\ params[p].state = "disabled"
    /\ Truthy(params[p].masquerade) \/ Truthy(params[p].icmp_block_inversion)

\* The refusals of lines 303-312.
IncompatibleWithDisabled ==
    {MsgDisabledTimeout, MsgDisabledMasquerade, MsgDisabledInversion}

\* What a successful invocation outside check mode, with no timeout run out
\* meanwhile, leaves of the two toggles: each one given is on, on each active
\* plane, exactly when it was given as true, whatever the state; a call
\* about a toggle is made only for a toggle that was given.
TogglesByValue(p) ==
    \A k \in ToggleKinds :
        /\ params[p][k] = Unset =>
             \A i \in DOMAIN calls[p] : calls[p][i][3] # k
        /\ (params[p][k] # Unset /\ Succeeded(p) /\ ~DryRun(p) /\ ~expired[p]) =>
             /\ RuntimeActive(p) =>
                  /\ (On \in rt[locals[p].zone][k]) = Truthy(params[p][k])
                  /\ CalledRuntime(p, "query", k, On)
                  /\ CalledRuntime(p, IF Truthy(params[p][k]) THEN "add" ELSE "remove", k, On)
                       = ((On \in start[p][1][locals[p].zone][k]) # Truthy(params[p][k]))
             /\ PermanentActive(p) =>
                  (On \in perm[locals[p].zone].ent[k]) = Truthy(params[p][k])

\* C21 as stated: a toggle given as true with state disabled is refused with
\* one of the incompatible-with-disabled messages before any call is made;
\* otherwise the toggles are reconciled by their own value.
C21_TogglesByValue ==
    \A p \in Procs : (Began(p) /\ Parses(p)) =>
        /\ TrueToggleDisabled(p) =>
             /\ pc[p] = "failed" /\ calls[p] = <<>>
             /\ result[p].msg \in IncompatibleWithDisabled
        /\ TogglesByValue(p)

\* C21: a toggle given as true with state disabled is refused before any
\* call is made, with the no-plane message when permanent, runtime and
\* offline are all given as false and with one of the
\* incompatible-with-disabled messages otherwise; in every other case the
\* toggles are reconciled by their own value.
C21_TogglesByValueAfterPlanes ==
    \A p \in Procs : (Began(p) /\ Parses(p)) =>
        /\ TrueToggleDisabled(p) =>
             /\ pc[p] = "failed" /\ calls[p] = <<>>
             /\ IF NoPlaneSelected(params[p]) THEN result[p].msg = MsgNoPlane
                ELSE result[p].msg \in IncompatibleWithDisabled
        /\ TogglesByValue(p)

\* A successful enabling run on both planes that gave masquerade as false and
\* removed it from each.
C21_Witness ==
    /\ Succeeded(1) /\ ~DryRun(1) /\ RuntimeActive(1) /\ PermanentActive(1)
    /\ params[1].state = "enabled" /\ params[1].masquerade = False
    /\ CalledRuntime(1, "remove", "masquerade", On)
    /\ \E i \in DOMAIN calls[1] : calls[1][i] = Call("permanent", "remove", "masquerade", On)
    /\ On \notin rt[locals[1].zone]["masquerade"]
    /\ On \notin perm[locals[1].zone].ent["masquerade"]

\* How many of the invocation's calls are made on the plane, with one of the
\* operations, about the key of the kind.
CallCount(p, plane, ops, k, key) ==
    Cardinality({ i \in DOMAIN calls[p] :
                    /\ calls[p][i][3] = k /\ calls[p][i][4] = key
                    /\ calls[p][i][1] = plane /\ calls[p][i][2] \in ops })

\* The keys of the kind that the request names, and how many times it lists
\* one of them (once for a toggle).
Named(p, k) ==
    IF k \in ListKinds THEN Requested(p, k)
    ELSE IF params[p][k] # Unset THEN {On} ELSE {}

TimesListed(p, k, key) ==
    IF k \in ListKinds
    THEN Cardinality({ n \in DOMAIN locals[p].ent[k] : locals[p].ent[k][n] = key })
    ELSE 1

Planes == {"runtime", "permanent"}

\* The calls about an entry or a toggle are about the keys the request names.
EntryCallsNamed(p) ==
    \A i \in DOMAIN calls[p] :
        calls[p][i][2] \in {"query", "add", "remove"} =>
            calls[p][i][4] \in Named(p, calls[p][i][3])

\* C22 as stated: for each plane, kind and key an invocation makes at most one
\* query and at most one add or remove.
C22_OncePerKey ==
    \A p \in Procs : Began(p) =>
        \A k \in EntryKinds : \A key \in Named(p, k) : \A plane \in Planes :
            /\ CallCount(p, plane, {"query"}, k, key) <= 1
            /\ CallCount(p, plane, {"add", "remove"}, k, key) <= 1

\* C22: for each plane, kind and key an invocation makes at most one add or
\* remove, also when the request lists the entry more than once; on a plane
\* it consults it makes one query for every time the entry is listed, and no
\* more.
C22_MutatedOncePerKey ==
    \A p \in Procs : Began(p) =>
        /\ EntryCallsNamed(p)
        /\ \A k \in EntryKinds : \A key \in Named(p, k) : \A plane \in Planes :
              /\ CallCount(p, plane, {"add", "remove"}, k, key) <= 1
              /\ CallCount(p, plane, {"query"}, k, key) <= TimesListed(p, k, key)
              /\ Succeeded(p) =>
                   CallCount(p, plane, {"query"}, k, key) \in {0, TimesListed(p, k, key)}

\* A successful enabling run outside check mode whose request lists one
\* service twice: two queries of it on the runtime plane, one add.
C22_Witness ==
    /\ Succeeded(1) /\ ~DryRun(1) /\ RuntimeActive(1)
    /\ Len(locals[1].ent["service"]) = 2
    /\ locals[1].ent["service"][1] = locals[1].ent["service"][2]
    /\ CallCount(1, "runtime", {"query"}, "service", locals[1].ent["service"][1]) = 2
    /\ CallCount(1, "runtime", {"add"}, "service", locals[1].ent["service"][1]) = 1

\* The keys of the kind that the request does not name: for a list kind those
\* it does not list, for a toggle its one key when the toggle is left unset.
Unnamed(p, k, keys) ==
    IF k \in ListKinds THEN keys \ Requested(p, k)
    ELSE IF params[p][k] = Unset THEN keys ELSE {}

\* C23: from its start on, an invocation leaves every other zone as it was
\* on both planes, and in its own zone every entry it does not list, every
\* toggle it leaves unset and, when it gives no target, the target.
C23_Frame ==
    \A p \in Procs : Began(p) =>
        /\ \A z \in Zones \ {locals[p].zone} :
              rt[z] = start[p][1][z] /\ perm[z] = start[p][2][z]
        /\ \A k \in EntryKinds :
              /\ Unnamed(p, k, rt[locals[p].zone][k])
                   = Unnamed(p, k, start[p][1][locals[p].zone][k])
              /\ Unnamed(p, k, perm[locals[p].zone].ent[k])
                   = Unnamed(p, k, start[p][2][locals[p].zone].ent[k])
        /\ params[p].target = Unset =>
              perm[locals[p].zone].target = start[p][2][locals[p].zone].target

\* A successful run outside check mode that changed both planes of a zone
\* that holds, on both, entries the request does not name and a target the
\* request does not give.
C23_Witness ==
    /\ Succeeded(1) /\ ~DryRun(1)
    /\ rt # start[1][1] /\ perm # start[1][2]
    /\ params[1].target = Unset
    /\ start[1][2][locals[1].zone].target # "default"
    /\ \E k \in ListKinds :
          /\ Requested(1, k) # {}
          /\ Unnamed(1, k, rt[locals[1].zone][k]) # {}
          /\ Unnamed(1, k, perm[locals[1].zone].ent[k]) # {}

====
